---- MODULE Spec2Model ----
(***************************************************************************)
(* Model of the policy-chat browser client: the PolicyChatUI component     *)
(* (frontend/src/policyChatUI.jsx), the usePolicyChat hook                 *)
(* (usePolicyChat.js) and the transport (frontend/src/policyTransport.js), *)
(* talking to the /chat endpoint.                                          *)
(*                                                                         *)
(* React semantics assumed (React 18, createRoot): state updates made in   *)
(* one handler or one promise continuation are batched into one render;    *)
(* updater functions passed to a setter run during that render, in queue   *)
(* order, and read closure variables as they are at that time; after a     *)
(* render the effects whose dependencies changed run in declaration order; *)
(* the next event is handled once no render or effect is pending.  Every   *)
(* action below therefore runs its handler, the render and the cascade of  *)
(* effects to the settled state.                                           *)
(***************************************************************************)
EXTENDS Integers, Sequences, FiniteSets, TLC

\* ------------------------------------------------------------------ bounds
MaxReq == 2        \* requests onSend may issue
MaxLocal == 2      \* provisional ids makeLocalId may produce

\* ------------------------------------------------------------------ values
NULL == <<>>
SP == " "
Chars == {SP, "a"}

\* what the user may type into the composer
Inputs == {<<>>, <<SP>>, <<"a">>, <<SP, "a", SP>>}

LocalId(n) == <<"local-", n>>
ServerId(n) == <<"srv-", n>>
makeLocalId(n) == LocalId(n)
startsWithLocal(id) == id # NULL /\ id[1] = "local-"

\* String.prototype.trim over character sequences
RECURSIVE TrimLeft(_)
TrimLeft(s) == IF s # <<>> /\ Head(s) = SP THEN TrimLeft(Tail(s)) ELSE s
RECURSIVE TrimRight(_)
TrimRight(s) ==
    IF s # <<>> /\ s[Len(s)] = SP THEN TrimRight(SubSeq(s, 1, Len(s) - 1)) ELSE s
Trim(s) == TrimRight(TrimLeft(s))

\* replace(/\s+/g, " ")
RECURSIVE CollapseWs(_)
CollapseWs(s) ==
    IF Len(s) < 2 THEN s
    ELSE IF s[1] = SP /\ s[2] = SP THEN CollapseWs(Tail(s))
    ELSE <<s[1]>> \o CollapseWs(Tail(s))

TitleMax == 36
NewChatTitle == <<"New chat">>
formatTitle(text) ==
    LET t == CollapseWs(Trim(text))
    IN IF t = <<>> THEN NewChatTitle
       ELSE IF Len(t) > TitleMax THEN Append(SubSeq(t, 1, TitleMax), "...") ELSE t

\* ------------------------------------------------------------------ localStorage
\* store.sid      : policyChat.sessionId (NULL when the key is absent)
\* store.sessions : policyChat.sessions (<<>> when absent: loadSessions falls back to [])
\* store.msgs     : policyChat.messages.<id>, a function on the ids whose key exists
loadMessages(msgs, id) ==
    IF id = NULL THEN <<>>
    ELSE IF id \in DOMAIN msgs THEN msgs[id] ELSE <<>>

saveMessages(msgs, id, m) ==
    IF id = NULL THEN msgs
    ELSE [k \in DOMAIN msgs \cup {id} |-> IF k = id THEN m ELSE msgs[k]]

removeItem(msgs, id) == [k \in DOMAIN msgs \ {id} |-> msgs[k]]

setSessionId(sid, id) == IF id = NULL THEN sid ELSE id

FilterOut(sessions, id) == SelectSeq(sessions, LAMBDA s : s.id # id)

\* an upsert that keeps the old entry
upsertSessionKeepOld(sessions, id, title) ==
    <<[id |-> id, title |-> IF title = <<>> THEN NewChatTitle ELSE title]>> \o sessions

upsertSession(sessions, id, title) ==
    <<[id |-> id, title |-> IF title = <<>> THEN NewChatTitle ELSE title]>>
        \o FilterOut(sessions, id)

\* a re-keying that leaves the list as it was
ReKeyNothing(sessions, from, to) == sessions

\* loadSessions().map(...) of line 228
ReKey(sessions, from, to) ==
    [i \in 1..Len(sessions) |->
        IF sessions[i].id = from THEN [sessions[i] EXCEPT !.id = to] ELSE sessions[i]]

\* ------------------------------------------------------------------ render and effects
\* A queued setMessages call: a plain value, or one of onSend's updaters.
SetOp(v) == [op |-> "set", val |-> v]
AppendOp(m, key) == [op |-> "append", msg |-> m, key |-> key]
MigrateOp(from, to) == [op |-> "migrate", from |-> from, to |-> to]

\* Runs the queue of setMessages calls of one render: r.messages is the new
\* state, r.msgs the storage after the updaters' writes, r.changed whether the
\* array identity changed.
RECURSIVE ApplyMsgOps(_, _, _, _)
ApplyMsgOps(messages, msgs, changed, ops) ==
    IF ops = <<>> THEN [messages |-> messages, msgs |-> msgs, changed |-> changed]
    ELSE LET o == Head(ops)
         IN CASE o.op = "set" ->
                   ApplyMsgOps(o.val, msgs, TRUE, Tail(ops))
              [] o.op = "append" ->
                   LET updated == Append(messages, o.msg)
                   IN ApplyMsgOps(updated, saveMessages(msgs, o.key, updated), TRUE, Tail(ops))
              [] o.op = "migrate" ->
                   ApplyMsgOps(messages, saveMessages(removeItem(msgs, o.from), o.to, messages),
                               changed, Tail(ops))

\* usePolicyChat effect [sessionId]
EffectStoreSessionId(store, prev, cur) ==
    IF cur.sessionId # prev.sessionId
    THEN [store EXCEPT !.sid = setSessionId(store.sid, cur.sessionId)]
    ELSE store

\* an active id that does not follow the session id
EffectFollowNothing(prev, cur) == cur.activeId

\* effect [sessionId, activeId]: the value setActiveId is called with, or the
\* current one when it is not called
EffectFollowSessionId(prev, cur) ==
    IF (cur.sessionId # prev.sessionId \/ cur.activeId # prev.activeId)
       /\ cur.sessionId # NULL /\ cur.sessionId # cur.activeId
    THEN cur.sessionId
    ELSE cur.activeId

\* effect [activeId]: the setMessages call it queues
EffectLoadMessages(store, prev, cur) ==
    IF cur.activeId # prev.activeId
    THEN <<SetOp(loadMessages(store.msgs, cur.activeId))>>
    ELSE <<>>

\* effect [activeId, messages]
EffectSaveMessages(store, prev, cur, msgChanged) ==
    IF (cur.activeId # prev.activeId \/ msgChanged)
       /\ cur.activeId # NULL /\ Len(cur.messages) > 0
    THEN [store EXCEPT !.msgs = saveMessages(store.msgs, cur.activeId, cur.messages)]
    ELSE store

\* One render of the component with the queued updates (next: the plain
\* setters' values, ops: the setMessages queue), its effects, and the renders
\* the effects cause, until nothing is pending.
RECURSIVE Settle(_, _, _, _)
Settle(prev, next, ops, store) ==
    LET r == ApplyMsgOps(prev.messages, store.msgs, FALSE, ops)
        cur == [next EXCEPT !.messages = r.messages]
        s0 == [store EXCEPT !.msgs = r.msgs]
        s1 == EffectStoreSessionId(s0, prev, cur)
        act == EffectFollowSessionId(prev, cur)
        load == EffectLoadMessages(s1, prev, cur)
        s2 == EffectSaveMessages(s1, prev, cur, r.changed)
    IN IF act = cur.activeId /\ load = <<>>
       THEN [ui |-> cur, store |-> s2]
       ELSE Settle(cur, [cur EXCEPT !.activeId = act], load, s2)

\* ------------------------------------------------------------------ state
VARIABLES
    ui,         \* React state: sessionId (usePolicyChat), sessions, activeId,
                \* messages, input, isSending, err
    store,      \* localStorage
    inflight,   \* calls of onSend suspended at await sendMessage
    known,      \* session ids the server knows
    nextLocal, nextServer, nextReq,
    posted,     \* every body handed to fetch, in order, and how its request ended
    returned,   \* the session ids responses carried
    adopted,    \* the re-keyings onSend made: from, to, and how many requests had been posted
    deleted,    \* the ids deleteChat was called with
    last        \* the last operation and what it observed

vars == <<ui, store, inflight, known, nextLocal, nextServer, nextReq,
          posted, returned, adopted, deleted, last>>

Init ==
    /\ ui = [sessionId |-> NULL, sessions |-> <<>>, activeId |-> NULL,
             messages |-> <<>>, input |-> <<>>, isSending |-> FALSE, err |-> <<>>]
    /\ store = [sid |-> NULL, sessions |-> <<>>, msgs |-> <<>>]
    /\ inflight = {}
    /\ known = {}
    /\ nextLocal = 1
    /\ nextServer = 1
    /\ nextReq = 1
    /\ posted = <<>>
    /\ returned = {}
    /\ adopted = {}
    /\ deleted = {}
    /\ last = [op |-> "init"]

Ids(sessions) == {sessions[i].id : i \in 1..Len(sessions)}

\* ------------------------------------------------------------------ handlers
\* <input onChange>, disabled while isSending
SetInput(v) ==
    /\ ~ui.isSending
    /\ v # ui.input
    /\ ui' = [ui EXCEPT !.input = v]
    /\ last' = [op |-> "setInput"]
    /\ UNCHANGED <<store, inflight, known, nextLocal, nextServer, nextReq,
                   posted, returned, adopted, deleted>>

StartNewChatResult(u, st, tempId) ==
    LET out == upsertSession(st.sessions, tempId, NewChatTitle)
        st1 == [st EXCEPT !.sid = setSessionId(NULL, tempId), !.sessions = out]
        next == [u EXCEPT !.err = <<>>, !.input = <<>>, !.isSending = FALSE,
                          !.activeId = tempId, !.sessionId = tempId, !.sessions = out]
    IN Settle(u, next, <<SetOp(<<>>)>>, st1)

startNewChat ==
    /\ nextLocal <= MaxLocal
    /\ LET r == StartNewChatResult(ui, store, makeLocalId(nextLocal))
       IN /\ ui' = r.ui
          /\ store' = r.store
    /\ nextLocal' = nextLocal + 1
    /\ last' = [op |-> "startNewChat", id |-> makeLocalId(nextLocal)]
    /\ UNCHANGED <<inflight, known, nextServer, nextReq, posted, returned, adopted, deleted>>

\* sidebar entry onClick
SelectChatResult(u, st, id) ==
    LET st1 == [st EXCEPT !.sid = setSessionId(st.sid, id)]
        next == [u EXCEPT !.err = <<>>, !.activeId = id, !.sessionId = id]
    IN Settle(u, next, <<>>, st1)

SelectChat(id) ==
    /\ id \in Ids(ui.sessions)
    /\ LET r == SelectChatResult(ui, store, id)
       IN /\ ui' = r.ui
          /\ store' = r.store
    /\ last' = [op |-> "select", id |-> id]
    /\ UNCHANGED <<inflight, known, nextLocal, nextServer, nextReq,
                   posted, returned, adopted, deleted>>

\* a deleteChat that treats every chat as the active one
DeleteChatClearsActive(u, st, id) ==
    LET out == FilterOut(st.sessions, id)
    IN Settle(u, [u EXCEPT !.sessions = out, !.activeId = NULL, !.sessionId = NULL],
              <<SetOp(<<>>)>>,
              [st EXCEPT !.sessions = out, !.msgs = removeItem(st.msgs, id), !.sid = NULL])

DeleteChatResult(u, st, id) ==
    LET out == FilterOut(st.sessions, id)
        active == u.activeId = id
        st1 == [st EXCEPT !.sessions = out,
                          !.msgs = removeItem(st.msgs, id),
                          !.sid = IF active THEN NULL ELSE st.sid]
        next == [u EXCEPT !.sessions = out,
                          !.activeId = IF active THEN NULL ELSE u.activeId,
                          !.sessionId = IF active THEN NULL ELSE u.sessionId]
    IN Settle(u, next, IF active THEN <<SetOp(<<>>)>> ELSE <<>>, st1)

deleteChat(id) ==
    /\ id \in Ids(ui.sessions)
    /\ LET r == DeleteChatResult(ui, store, id)
       IN /\ ui' = r.ui
          /\ store' = r.store
    /\ deleted' = deleted \cup {id}
    /\ last' = [op |-> "deleteChat", id |-> id]
    /\ UNCHANGED <<inflight, known, nextLocal, nextServer, nextReq,
                   posted, returned, adopted>>

\* crypto.randomUUID() for the two messages of request n
UserMsgId(n) == 2 * n - 1
AssistantMsgId(n) == 2 * n

\* onSend's userMsg (line 207)
UserMsg(n, text) == [id |-> UserMsgId(n), role |-> "user", text |-> text]

\* a guard that tests the raw input
OnSendAcceptsUntrimmed(u) == u.input # <<>> /\ ~u.isSending

\* onSend's guard (line 193)
OnSendAccepts(u) == Trim(u.input) # <<>> /\ ~u.isSending

\* sendChatMessage: the session_id of the body handed to fetch (NULL: the body
\* has no session_id)
BodySessionId(overrideSessionId, storedSid) ==
    IF overrideSessionId # NULL THEN overrideSessionId ELSE storedSid

\* onSend's sendSessionId (line 217)
SendSessionId(currentId) == IF startsWithLocal(currentId) THEN NULL ELSE currentId

\* onSend up to `await sendMessage`: the settled client state and the
\* suspended call (its closure and the body it posted)
OnSendResult(u, st, newLocal, n) ==
    LET text == Trim(u.input)
        fresh == u.activeId = NULL
        currentId == IF fresh THEN newLocal ELSE u.activeId
        title == formatTitle(text)
        sess1 == IF fresh THEN upsertSession(st.sessions, currentId, title) ELSE st.sessions
        sess2 == upsertSession(sess1, currentId, title)
        sid1 == IF fresh THEN setSessionId(st.sid, currentId) ELSE st.sid
        userMsg == UserMsg(n, text)
        sendSessionId == SendSessionId(currentId)
        st1 == [st EXCEPT !.sid = sid1, !.sessions = sess2]
        next == [u EXCEPT !.err = <<>>, !.isSending = TRUE, !.input = <<>>,
                          !.activeId = currentId,
                          !.sessionId = IF fresh THEN currentId ELSE u.sessionId,
                          !.sessions = sess2]
        r == Settle(u, next, <<AppendOp(userMsg, currentId)>>, st1)
    IN [ui |-> r.ui, store |-> r.store,
        call |-> [req |-> n, currentId |-> currentId, sendSessionId |-> sendSessionId,
                  text |-> text, session_id |-> BodySessionId(sendSessionId, sid1),
                  storedSid |-> sid1]]

onSend ==
    /\ nextReq <= MaxReq
    /\ IF OnSendAccepts(ui)
       THEN /\ ui.activeId = NULL => nextLocal <= MaxLocal
            /\ LET r == OnSendResult(ui, store, makeLocalId(nextLocal), nextReq)
               IN /\ ui' = r.ui
                  /\ store' = r.store
                  /\ inflight' = inflight \cup {r.call}
                  /\ posted' = Append(posted,
                                 [req |-> nextReq, currentId |-> r.call.currentId,
                                  text |-> r.call.text,
                                  session_id |-> r.call.session_id,
                                  wasReturned |-> r.call.session_id \in returned,
                                  outcome |-> "pending"])
                  /\ last' = [op |-> "onSend", accepted |-> TRUE, req |-> nextReq]
            /\ nextLocal' = IF ui.activeId = NULL THEN nextLocal + 1 ELSE nextLocal
            /\ nextReq' = nextReq + 1
       ELSE /\ last' = [op |-> "onSend", accepted |-> FALSE]
            /\ UNCHANGED <<ui, store, inflight, posted, nextLocal, nextReq>>
    /\ UNCHANGED <<known, nextServer, returned, adopted, deleted>>

\* The /chat endpoint (spec 4.1): a known session id is echoed, an absent or
\* unknown one gets a new session with a server-assigned id.
ServerSessionId(knownIds, sid, n) == IF sid \in knownIds THEN sid ELSE ServerId(n)

\* what a response may carry; <<>> is an absent (or empty) answer, absent sources
Answers == {<<>>, <<"ans">>}
SourceLists == {<<>>, <<"s1", "s2">>}
\* the responses the endpoint may give: complete, without answer, without sources
Payloads == {p \in [answer : Answers, sources : SourceLists] :
                p.answer # <<>> \/ p.sources # <<>>}
NoAnswerText == <<"(No answer returned)">>

\* an assistant message that drops the sources
AssistantMsgNoSources(n, data) ==
    [id |-> 2 * n, role |-> "assistant",
     text |-> IF data.answer # NULL THEN data.answer ELSE NoAnswerText,
     sources |-> <<>>]

\* onSend's assistantMsg (lines 236-241)
AssistantMsg(n, data) ==
    [id |-> AssistantMsgId(n), role |-> "assistant",
     text |-> IF data.answer # NULL THEN data.answer ELSE NoAnswerText,
     sources |-> IF data.sources # NULL THEN data.sources ELSE <<>>]

\* a re-keying test that accepts any chat id
ShouldMigrateAny(currentId, realId) == realId # NULL /\ realId # currentId

\* onSend's test for re-keying a chat (line 221)
ShouldMigrate(currentId, realId) ==
    startsWithLocal(currentId) /\ realId # NULL /\ realId # currentId

\* onSend's realId (line 219)
RealId(data, call) ==
    IF data.session_id # NULL THEN data.session_id
    ELSE IF call.sendSessionId # NULL THEN call.sendSessionId
    ELSE call.currentId

\* onSend after `await sendMessage` resolved with data (lines 219-247, 251),
\* preceded by sendChatMessage line 37 and usePolicyChat.sendMessage line 24
OnResponseResult(u, st, call, data) ==
    LET R == data.session_id
        sid1 == setSessionId(st.sid, R)
        realId == RealId(data, call)
        migrate == ShouldMigrate(call.currentId, realId)
        currentId == IF migrate THEN realId ELSE call.currentId
        \* the updater of line 222 runs when setMessages is called only if no
        \* update is queued yet, i.e. if _setSessionId(R) changed nothing;
        \* otherwise it runs in the render, after line 233 reassigned currentId
        removeKey == IF u.sessionId = R THEN call.currentId ELSE currentId
        updated == IF migrate THEN ReKey(st.sessions, call.currentId, realId) ELSE st.sessions
        assistantMsg == AssistantMsg(call.req, data)
        st1 == [st EXCEPT !.sid = IF migrate THEN setSessionId(sid1, realId) ELSE sid1,
                          !.sessions = updated]
        next == [u EXCEPT !.sessionId = IF migrate THEN realId
                                        ELSE IF R # NULL THEN R ELSE u.sessionId,
                          !.activeId = IF migrate THEN realId ELSE u.activeId,
                          !.sessions = IF migrate THEN updated ELSE u.sessions,
                          !.isSending = FALSE]
        ops == (IF migrate THEN <<MigrateOp(removeKey, realId)>> ELSE <<>>)
               \o <<AppendOp(assistantMsg, currentId)>>
    IN Settle(u, next, ops, st1)

Response(call, answer, sources) ==
    /\ call \in inflight
    /\ LET R == ServerSessionId(known, call.session_id, nextServer)
           data == [session_id |-> R, answer |-> answer, sources |-> sources]
           r == OnResponseResult(ui, store, call, data)
       IN /\ ui' = r.ui
          /\ store' = r.store
          /\ known' = known \cup {R}
          /\ nextServer' = IF R \in known THEN nextServer ELSE nextServer + 1
          /\ returned' = returned \cup {R}
          /\ adopted' = IF ShouldMigrate(call.currentId, RealId(data, call))
                        THEN adopted \cup {[from |-> call.currentId,
                                            to |-> RealId(data, call), n |-> Len(posted)]}
                        ELSE adopted
          /\ last' = [op |-> "response", call |-> call, data |-> data,
                      hadEntry |-> call.currentId \in Ids(ui.sessions),
                      wasActive |-> ui.activeId = call.currentId,
                      alone |-> inflight = {call}]
    /\ posted' = [posted EXCEPT ![call.req].outcome = "ok"]
    /\ inflight' = inflight \ {call}
    /\ UNCHANGED <<nextLocal, nextReq, deleted>>

Statuses == {400, 503}
\* new Error(`Backend error (${res.status}): ...`).message
BackendError(status) == <<"Backend error", status>>

\* a catch without the finally
OnFailureKeepsSending(u, st, message) == Settle(u, [u EXCEPT !.err = message], <<>>, st)

\* onSend's catch and finally (lines 248-252)
OnFailureResult(u, st, message) ==
    Settle(u, [u EXCEPT !.err = message, !.isSending = FALSE], <<>>, st)

Failure(call, status) ==
    /\ call \in inflight
    /\ LET r == OnFailureResult(ui, store, BackendError(status))
       IN /\ ui' = r.ui
          /\ store' = r.store
    /\ inflight' = inflight \ {call}
    /\ posted' = [posted EXCEPT ![call.req].outcome = "failed"]
    /\ last' = [op |-> "failure", call |-> call, status |-> status]
    /\ UNCHANGED <<known, nextLocal, nextServer, nextReq, returned, adopted, deleted>>

\* the session store loses a session
ServerForget(id) ==
    /\ id \in known
    /\ known' = known \ {id}
    /\ last' = [op |-> "forget", id |-> id]
    /\ UNCHANGED <<ui, store, inflight, nextLocal, nextServer, nextReq, posted, returned, adopted, deleted>>

AllIds == {LocalId(n) : n \in 1..MaxLocal} \cup {ServerId(n) : n \in 1..MaxReq}

Next == \/ \E v \in Inputs : SetInput(v)
        \/ startNewChat
        \/ \E id \in AllIds : SelectChat(id)
        \/ \E id \in AllIds : deleteChat(id)
        \/ onSend
        \/ \E call \in inflight, p \in Payloads : Response(call, p.answer, p.sources)
        \/ \E call \in inflight, status \in Statuses : Failure(call, status)
        \/ \E id \in AllIds : ServerForget(id)

Spec == Init /\ [][Next]_vars

\* the fetch of a request in flight settles: the promise awaited by onSend
\* resolves with the response or rejects, and the continuation runs
Settles ==
    \E call \in inflight :
        \/ \E p \in Payloads : Response(call, p.answer, p.sources)
        \/ \E status \in Statuses : Failure(call, status)

FairSpec == Spec /\ WF_vars(Settles)

\* ------------------------------------------------------------------ claims
\* C1: no request carries a provisional id as session_id: a request sent while
\* the chat's id is provisional has no session_id in its body, and every
\* session_id posted is one a response carried earlier.
C1_NoProvisionalIdPosted ==
    \A i \in DOMAIN posted :
        /\ startsWithLocal(posted[i].currentId) => posted[i].session_id = NULL
        /\ posted[i].session_id # NULL =>
              ~startsWithLocal(posted[i].session_id) /\ posted[i].wasReturned

\* C2: once a response has made a provisional chat adopt the server id R,
\* every request issued afterwards from that chat (under its provisional or
\* its adopted id) carries session_id R.
C2_AdoptedIdSent ==
    \A a \in adopted : \A i \in DOMAIN posted :
        (i > a.n /\ posted[i].currentId \in {a.from, a.to}) => posted[i].session_id = a.to

C2_Witness ==
    \E a \in adopted : \E i \in DOMAIN posted :
        i > a.n /\ posted[i].currentId = a.to /\ posted[i].session_id = a.to

UserMsgOf(call) == UserMsg(call.req, call.text)
Contains(messages, m) == \E i \in DOMAIN messages : messages[i] = m

\* C3: after a successful response whose session_id differs from the id of the
\* chat the message was sent from, the chat's entry in the sessions list and
\* its persisted messages are keyed by the returned id, and the chat's earlier
\* messages are shown.  Stated for the plain case: the chat still has its
\* entry, is the one displayed, and no other request is in flight.
C3_ReturnedIdAdopted ==
    (/\ last.op = "response"
     /\ last.data.session_id # last.call.currentId
     /\ last.hadEntry /\ last.wasActive /\ last.alone)
    => /\ last.data.session_id \in Ids(ui.sessions)
       /\ last.data.session_id \in Ids(store.sessions)
       /\ last.call.currentId \notin Ids(ui.sessions)
       /\ Contains(loadMessages(store.msgs, last.data.session_id), UserMsgOf(last.call))
       /\ Contains(ui.messages, UserMsgOf(last.call))

\* C4: at most one request issued by onSend is in flight at any time.
C4_OneInFlight == Cardinality(inflight) <= 1

\* The ids request i's chat has now: the id it was sent under, or the ids that
\* id was re-keyed to.
CurrentIds(i) ==
    LET to == {a.to : a \in {b \in adopted : b.from = posted[i].currentId}}
    IN IF to = {} THEN {posted[i].currentId} ELSE to

ChatDeleted(i) == posted[i].currentId \in deleted \/ CurrentIds(i) \cap deleted # {}

\* The requests sent from the chat whose id is now c
RequestsOf(c) == {i \in DOMAIN posted : c \in CurrentIds(i)}

Alternates(messages) ==
    \A k \in DOMAIN messages :
        messages[k].role = IF k % 2 = 1 THEN "user" ELSE "assistant"

\* C5: for every chat of the sessions list, once the N exchanges sent from it
\* have all succeeded, the list persisted under its current id has length 2N
\* and alternates user, assistant.
C5_TwoPerExchange ==
    \A c \in Ids(store.sessions) :
        (\A i \in RequestsOf(c) : posted[i].outcome = "ok") =>
            /\ Len(loadMessages(store.msgs, c)) = 2 * Cardinality(RequestsOf(c))
            /\ Alternates(loadMessages(store.msgs, c))

\* C6: the user message of every accepted onSend stays in the list persisted
\* under its chat's current id until the chat is deleted.
C6_UserMessageKept ==
    \A i \in DOMAIN posted :
        ~ChatDeleted(i) =>
            \E c \in CurrentIds(i) :
                Contains(loadMessages(store.msgs, c), UserMsg(i, posted[i].text))

IsBlank(input) == \A i \in DOMAIN input : input[i] = SP

\* C7: onSend with an empty or whitespace-only input issues no request,
\* creates no chat, appends no message and leaves the in-flight flag, the
\* sessions list and the stored session id (all of the React state and of
\* localStorage) unchanged.
C7_BlankRejected ==
    [][(last'.op = "onSend" /\ IsBlank(ui.input)) =>
          UNCHANGED <<ui, store, inflight, posted, nextLocal, nextReq>>]_vars

C7_Witness ==
    last.op = "onSend" /\ ~last.accepted /\ ui.input = <<SP>> /\ ~ui.isSending

HasAssistantMsg(messages, n) ==
    \E k \in DOMAIN messages : messages[k].id = AssistantMsgId(n)

\* C8 as stated: after a non-OK response the error with the status is shown,
\* the in-flight flag is reset, no assistant message of the request exists in
\* any chat, and the session id in localStorage is the one held when the
\* request was issued.
C8_SidAsWhenIssued ==
    last.op = "failure" =>
        /\ ui.err = <<"Backend error", last.status>>
        /\ ~ui.isSending
        /\ ~HasAssistantMsg(ui.messages, last.call.req)
        /\ \A c \in DOMAIN store.msgs : ~HasAssistantMsg(store.msgs[c], last.call.req)
        /\ store.sid = last.call.storedSid

\* C8 amended: handling a non-OK response shows the error with the status,
\* resets the in-flight flag and changes nothing else: localStorage (the
\* session id, the sessions list, every persisted message list) and the
\* displayed messages are as immediately before the failure arrived.
C8_FailureContained ==
    [][last'.op = "failure" =>
          /\ ui'.err = <<"Backend error", last'.status>>
          /\ ~ui'.isSending
          /\ store' = store
          /\ ui' = [ui EXCEPT !.err = ui'.err, !.isSending = FALSE]]_vars

C8_Witness ==
    /\ last.op = "failure"
    /\ ui.err = <<"Backend error", 503>>
    /\ ~ui.isSending
    /\ store.sid # last.call.storedSid

NoDuplicateIds(sessions) ==
    \A i, j \in DOMAIN sessions : i # j => sessions[i].id # sessions[j].id

\* C9: the sessions list (the state and the stored copy) never holds two
\* entries with the same id.
C9_UniqueIds == NoDuplicateIds(ui.sessions) /\ NoDuplicateIds(store.sessions)

C9_Witness ==
    /\ Len(store.sessions) >= 2
    /\ \E a \in adopted : a.to \in Ids(store.sessions)
    /\ deleted # {}

\* What may make the id x leave the list: deleteChat(x), or the re-keying of
\* the provisional id x to the id a response returned.
LeavesBy(x, before, after) ==
    \/ last'.op = "deleteChat" /\ last'.id = x
    \/ /\ startsWithLocal(x)
       /\ last'.op = "response"
       /\ last'.call.currentId = x
       /\ last'.data.session_id \in Ids(after)
       /\ Len(after) = Len(before)

\* C10: an entry with a server-assigned id never changes its id: an id leaves
\* the sessions list only by deleteChat or, if provisional, by being re-keyed
\* to the id the server returned.
C10_ServerIdPermanent ==
    [][/\ \A x \in Ids(ui.sessions) \ Ids(ui.sessions') :
             LeavesBy(x, ui.sessions, ui.sessions')
       /\ \A x \in Ids(store.sessions) \ Ids(store.sessions') :
             LeavesBy(x, store.sessions, store.sessions')]_vars

C10_Witness ==
    /\ last.op = "response"
    /\ ~startsWithLocal(last.call.currentId)
    /\ last.data.session_id # last.call.currentId
    /\ last.hadEntry
    /\ last.call.currentId \in Ids(ui.sessions)
    /\ last.call.currentId \in Ids(store.sessions)

\* The messages of list `messages` that answer request n
AnswersTo(messages, n) ==
    {messages[k] : k \in {j \in DOMAIN messages : messages[j].id = AssistantMsgId(n)}}

\* Every assistant message of request n, displayed or persisted
AssistantMsgsOf(n) ==
    AnswersTo(ui.messages, n)
        \cup UNION {AnswersTo(store.msgs[c], n) : c \in DOMAIN store.msgs}

\* C11: once a response has been processed, the assistant message of its
\* request exists, and every copy of it, displayed or persisted, has as text
\* the response's answer (the placeholder "(No answer returned)" when there is
\* none) and as sources the response's sources in the same order (the empty
\* list when there are none).
C11_AssistantMsgFromResponse ==
    last.op = "response" =>
        /\ AssistantMsgsOf(last.call.req) # {}
        /\ \A m \in AssistantMsgsOf(last.call.req) :
              /\ m.role = "assistant"
              /\ m.text = IF last.data.answer = <<>> THEN <<"(No answer returned)">>
                          ELSE last.data.answer
              /\ m.sources = last.data.sources

C11_Witness ==
    /\ last.op = "response"
    /\ last.data.answer = <<>>
    /\ last.data.sources = <<"s1", "s2">>
    /\ \E c \in DOMAIN store.msgs : \E m \in AnswersTo(store.msgs[c], last.call.req) :
          m.text = <<"(No answer returned)">> /\ m.sources = <<"s1", "s2">>

\* The request a message belongs to
RequestOf(m) == (m.id + 1) \div 2

\* Every id request i's chat has had: the one it was sent under and the ids
\* that one was re-keyed to
ChatIds(i) ==
    {posted[i].currentId} \cup {a.to : a \in {b \in adopted : b.from = posted[i].currentId}}

\* C12: the assistant message of every answered request is persisted under
\* the id of the chat the request was sent from (until that chat is deleted),
\* and every persisted list holds only messages of requests sent from its own
\* chat.
C12_ChatsIsolated ==
    /\ \A i \in DOMAIN posted :
          (posted[i].outcome = "ok" /\ ~ChatDeleted(i)) =>
              \E c \in CurrentIds(i) : HasAssistantMsg(loadMessages(store.msgs, c), i)
    /\ \A c \in DOMAIN store.msgs : \A k \in DOMAIN store.msgs[c] :
          c \in ChatIds(RequestOf(store.msgs[c][k]))

\* C13: selecting a chat in the sidebar leaves every persisted message list
\* as it was (also that of the selected chat, also when it is empty), makes
\* the selected chat the active one and displays the messages persisted for it.
C13_SelectOnlyActivates ==
    [][last'.op = "select" =>
          /\ store'.msgs = store.msgs
          /\ ui'.activeId = last'.id
          /\ ui'.messages = loadMessages(store'.msgs, last'.id)]_vars

\* C14: once a successful response to a request sent from a provisional chat
\* has been processed, the provisional id is in no sessions list entry, keys
\* no persisted message list, is neither the active id nor the stored session
\* id, and the messages that were persisted under it are persisted under the
\* id the server returned.
C14_ProvisionalIdGone ==
    [][(last'.op = "response" /\ startsWithLocal(last'.call.currentId)) =>
          LET localId == last'.call.currentId
              realId == last'.data.session_id
              before == loadMessages(store.msgs, localId)
          IN /\ localId \notin Ids(ui'.sessions)
             /\ localId \notin Ids(store'.sessions)
             /\ localId \notin DOMAIN store'.msgs
             /\ ui'.activeId # localId
             /\ store'.sid # localId
             /\ \A k \in DOMAIN before :
                   Contains(loadMessages(store'.msgs, realId), before[k])]_vars

\* C15: in every settled state the active chat id equals the session id held
\* in localStorage (both absent, or the same id); the hook's session id agrees
\* with them.
C15_ActiveIsStoredSid ==
    /\ ui.activeId = store.sid
    /\ ui.sessionId = store.sid

C15_Witness ==
    /\ last.op = "response"
    /\ ~last.wasActive
    /\ last.call.storedSid # store.sid
    /\ ui.activeId = last.data.session_id
    /\ store.sid = last.data.session_id

\* C16: in every settled state every id that keys a persisted message list
\* has an entry in the sessions list, and no message list is persisted under
\* the id of a deleted chat.
C16_NoOrphanedMessages ==
    /\ DOMAIN store.msgs \subseteq Ids(store.sessions)
    /\ DOMAIN store.msgs \subseteq Ids(ui.sessions)
    /\ deleted \cap DOMAIN store.msgs = {}

\* C17: deleteChat(id) for a chat that is not the active one removes the
\* entry id from the sessions list and the message list persisted under id,
\* and leaves the active chat id, the stored session id, the displayed
\* messages, the in-flight flag and every other chat's entry and persisted
\* messages as they were.
C17_DeleteInactiveFrame ==
    [][(last'.op = "deleteChat" /\ last'.id # ui.activeId) =>
          /\ ui'.sessions = SelectSeq(ui.sessions, LAMBDA e : e.id # last'.id)
          /\ store'.sessions = SelectSeq(store.sessions, LAMBDA e : e.id # last'.id)
          /\ DOMAIN store'.msgs = DOMAIN store.msgs \ {last'.id}
          /\ \A c \in DOMAIN store'.msgs : store'.msgs[c] = store.msgs[c]
          /\ ui'.activeId = ui.activeId
          /\ ui'.sessionId = ui.sessionId
          /\ store'.sid = store.sid
          /\ ui'.messages = ui.messages
          /\ ui'.isSending = ui.isSending]_vars

C17_Witness ==
    /\ last.op = "deleteChat"
    /\ last.id \notin Ids(ui.sessions)
    /\ ui.activeId # NULL
    /\ ui.activeId = store.sid
    /\ ui.messages # <<>>
    /\ ui.isSending
    /\ Len(ui.sessions) >= 1

\* C18: every send completes: whenever the in-flight flag is set it is
\* eventually reset; while the flag is false no request issued by onSend is
\* pending; and the flag is not true when no request is pending.
C18_EverySendCompletes ==
    /\ [](ui.isSending => <>(~ui.isSending))
    /\ [](~ui.isSending => inflight = {})
    /\ [](ui.isSending => inflight # {})
====
